---- MODULE Spec2Model ----
(* Stock bookkeeping of the inventory application: the Product, Sale,      *)
(* SaleItem and StockTransaction models (inventory/models.py), the forms   *)
(* that validate requests (inventory/forms.py), and the views and admin    *)
(* registrations that drive them (inventory/views.py, inventory/admin.py). *)
(* Every action is one request, executed against the database as the       *)
(* handler executes it, transaction.atomic() included. A second            *)
(* specification lets other requests run between a sale view's formset     *)
(* validation and its transaction.atomic() block.                          *)
EXTENDS Integers, Sequences, FiniteSets, TLC

VARIABLES products, sales, items, txns, seq, stock0, last, requests, pending,
          issued, report

vars == <<products, sales, items, txns, seq, stock0, last, requests, pending,
          issued, report>>

(* ------------------------------------------------------------------ *)
(* Bounds of the model                                                  *)
(* ------------------------------------------------------------------ *)
MaxProducts == 2      \* product rows ever inserted
MaxSales == 3         \* sale rows ever inserted
MaxItems == 2         \* sale item rows ever inserted
MaxTxns == 1          \* stock transaction rows ever inserted
MaxStock == 2         \* largest stock or quantity typed into a form
MaxRequests == 4      \* requests served
MaxPending == 1       \* sale requests validated and not yet committed

\* f"SALE-{n:06d}": the minimum width of the numeric suffix
PadWidth == 6

\* min_stock_level = models.PositiveIntegerField(default=5)
MinStockLevelDefault == 5

\* the values the requests carry
Stocks == 0..MaxStock
Qtys == 1..MaxStock
UnitPrices == {1, 2}
BuyingPrices == {1}
SellingPrices == {0, 1}
Deltas == {-1, 0, 1}

(* ------------------------------------------------------------------ *)
(* The database and the outcome of a call                               *)
(* ------------------------------------------------------------------ *)
\* The four tables and the auto-increment counters, as one value that the
\* model methods below take and return.
DB == [products |-> products, sales |-> sales, items |-> items,
       txns |-> txns, seq |-> seq]

\* A call returns normally ...
Ok(db) == [ok |-> TRUE, err |-> "", db |-> db]
\* ... or raises; db is the database at the point of the raise.
Raise(e, db) == [ok |-> FALSE, err |-> e, db |-> db]

\* a block that keeps the writes made before the exception
Atomic_keepsWrites(db0, r) == r

\* with transaction.atomic(): an exception leaving the block rolls back to
\* the database at its entry.
Atomic(db0, r) == IF r.ok THEN r ELSE Raise(r.err, db0)

\* row k removed from table t
Without(t, k) == [x \in DOMAIN t \ {k} |-> t[x]]

Max(S) == CHOOSE x \in S : \A y \in S : y <= x

(* ------------------------------------------------------------------ *)
(* Product                                                              *)
(* ------------------------------------------------------------------ *)
\* A Product is [sku, buying_price, selling_price, current_stock,
\* min_stock_level, is_active]; sku is a string, <<>> when the form left
\* it blank.

DigitChars == <<"0", "1", "2", "3", "4", "5", "6", "7", "8", "9">>

DigitVal(c) == (CHOOSE i \in 1..10 : DigitChars[i] = c) - 1

\* the decimal digits of n >= 0, most significant first
RECURSIVE Decimal(_)
Decimal(n) ==
    IF n < 10 THEN <<DigitChars[n + 1]>>
    ELSE Decimal(n \div 10) \o <<DigitChars[(n % 10) + 1]>>

\* f"SKU-{n}"
FormatSku(n) == <<"S", "K", "U", "-">> \o Decimal(n)

\* Product.clean without its test of current_stock
Product_clean_noStockCheck(p) == ~(p.selling_price < p.buying_price)

\* Product.clean without its test of the prices
Product_clean_noPriceCheck(p) == ~(p.current_stock < 0)

\* Product.clean: TRUE when it raises no ValidationError
Product_clean(p) ==
    /\ ~(p.selling_price < p.buying_price)
    /\ ~(p.current_stock < 0)

\* Product.save of the in-memory object obj with primary key id (0: unsaved)
\* sku is unique=True: the write of a duplicate raises.
Product_save(db, id, obj) ==
    IF ~Product_clean(obj) THEN Raise("ValidationError", db)
    ELSE LET pk == IF id = 0 THEN db.seq.product + 1 ELSE id
             named ==
                 IF obj.sku = <<>>
                 THEN [obj EXCEPT !.sku =
                          FormatSku(IF id # 0 THEN id
                                    ELSE Cardinality(DOMAIN db.products) + 1)]
                 ELSE obj
         IN IF \E o \in DOMAIN db.products \ {pk} :
                   db.products[o].sku = named.sku
            THEN Raise("IntegrityError", db)
            ELSE Ok([db EXCEPT !.products = (pk :> named) @@ @,
                               !.seq.product = IF id = 0 THEN @ + 1 ELSE @])

\* Model.delete of a Product row: SaleItem.product is on_delete=PROTECT,
\* StockTransaction.product is on_delete=CASCADE
Product_delete(db, pid) ==
    IF \E i \in DOMAIN db.items : db.items[i].product = pid
    THEN Raise("ProtectedError", db)
    ELSE Ok([db EXCEPT
                !.products = Without(@, pid),
                !.txns = [k \in {x \in DOMAIN @ : @[x].product # pid} |-> @[k]]])

\* Product.is_low_stock
Product_is_low_stock(p) == p.current_stock <= p.min_stock_level

\* ProductForm.clean followed by the model's clean that a ModelForm runs:
\* TRUE when the form is valid
ProductForm_is_valid(obj) ==
    /\ ~(obj.selling_price # 0 /\ obj.buying_price # 0
            /\ obj.selling_price < obj.buying_price)
    /\ Product_clean(obj)

\* the uniqueness check a ModelForm runs on the sku typed into the form of
\* product pid (0: a new product); a blank sku is None and is not checked
ProductForm_validate_unique(db, pid, obj) ==
    \/ obj.sku = <<>>
    \/ ~\E o \in DOMAIN db.products \ {pid} : db.products[o].sku = obj.sku

(* ------------------------------------------------------------------ *)
(* Sale                                                                 *)
(* ------------------------------------------------------------------ *)
\* f"{n:06d}": zero-padded on the left to PadWidth characters
ZeroPad(n) ==
    LET d == Decimal(n)
    IN IF Len(d) >= PadWidth THEN d
       ELSE [i \in 1..(PadWidth - Len(d)) |-> "0"] \o d

\* f"SALE-{n:06d}"
FormatSaleNumber(n) == <<"S", "A", "L", "E", "-">> \o ZeroPad(n)

\* int(s) of a string of digits
RECURSIVE IntOf(_)
IntOf(s) ==
    IF Len(s) = 0 THEN 0
    ELSE 10 * IntOf(SubSeq(s, 1, Len(s) - 1)) + DigitVal(s[Len(s)])

\* int(sale_number.split('-')[-1])
ParseSaleNumber(s) ==
    LET dashes == {i \in 1..Len(s) : s[i] = "-"}
        from == IF dashes = {} THEN 1 ELSE Max(dashes) + 1
    IN IntOf(SubSeq(s, from, Len(s)))

\* order_by('id').first(): the lowest id instead of the highest
LastSaleId_lowestId(db) ==
    IF DOMAIN db.sales = {} THEN 0
    ELSE CHOOSE x \in DOMAIN db.sales : \A y \in DOMAIN db.sales : x <= y

\* Sale.objects.order_by('-id').first(): the id of that row, 0 for None
LastSaleId(db) == IF DOMAIN db.sales = {} THEN 0 ELSE Max(DOMAIN db.sales)

\* the sale number Sale.save generates
NextSaleNumber(db) ==
    LET last_sale == LastSaleId(db)
        last_number == IF last_sale # 0
                       THEN ParseSaleNumber(db.sales[last_sale].sale_number)
                       ELSE 0
    IN FormatSaleNumber(last_number + 1)

\* Sale.save generating a sale number on every save
Sale_save_renumbers(db, id, obj) ==
    LET numbered == [obj EXCEPT !.sale_number = NextSaleNumber(db)]
        pk == IF id = 0 THEN db.seq.sale + 1 ELSE id
    IN IF \E o \in DOMAIN db.sales \ {pk} :
              db.sales[o].sale_number = numbered.sale_number
       THEN Raise("IntegrityError", db)
       ELSE Ok([db EXCEPT !.sales = (pk :> numbered) @@ @,
                          !.seq.sale = IF id = 0 THEN @ + 1 ELSE @])

\* Sale.save of the in-memory object obj with primary key id (0: unsaved).
\* sale_number is unique=True: the insert of a duplicate raises.
Sale_save(db, id, obj) ==
    LET numbered == IF obj.sale_number = <<>>
                    THEN [obj EXCEPT !.sale_number = NextSaleNumber(db)]
                    ELSE obj
        pk == IF id = 0 THEN db.seq.sale + 1 ELSE id
    IN IF \E o \in DOMAIN db.sales \ {pk} :
              db.sales[o].sale_number = numbered.sale_number
       THEN Raise("IntegrityError", db)
       ELSE Ok([db EXCEPT !.sales = (pk :> numbered) @@ @,
                          !.seq.sale = IF id = 0 THEN @ + 1 ELSE @])

\* the rows of sale_items that belong to sale sid
ItemsOf(db, sid) == {i \in DOMAIN db.items : db.items[i].sale = sid}

\* Sum(F('quantity') * F('unit_price')) over a set of item rows
RECURSIVE SumSubtotals(_, _)
SumSubtotals(db, S) ==
    IF S = {} THEN 0
    ELSE LET i == CHOOSE x \in S : TRUE
         IN db.items[i].quantity * db.items[i].unit_price
              + SumSubtotals(db, S \ {i})

\* Sale.update_total
Sale_update_total(db, sid) ==
    Sale_save(db, sid,
              [db.sales[sid] EXCEPT
                  !.total_amount = SumSubtotals(db, ItemsOf(db, sid))])

(* ------------------------------------------------------------------ *)
(* SaleItem                                                             *)
(* ------------------------------------------------------------------ *)
\* An in-memory SaleItem is [pk, sale, product, product_obj, quantity,
\* unit_price]: pk is 0 until the first save, product_obj is the Product
\* instance cached on the item when the product was looked up.
Instance(pk, sale, pid, obj, q, price) ==
    [pk |-> pk, sale |-> sale, product |-> pid, product_obj |-> obj,
     quantity |-> q, unit_price |-> price]

\* the quantity of the stored row with this pk, 0 when there is none
OriginalQuantity(db, pk) ==
    IF pk \in DOMAIN db.items THEN db.items[pk].quantity ELSE 0

\* SaleItem.clean: "" when it raises nothing, else the error
SaleItem_clean(db, inst) ==
    IF inst.quantity < 1 THEN "Quantity must be at least 1."
    ELSE IF inst.unit_price < 0 THEN "Unit price cannot be negative."
    ELSE LET available_stock == inst.product_obj.current_stock
                                  + OriginalQuantity(db, inst.pk)
         IN IF inst.quantity > available_stock THEN "Insufficient stock."
            ELSE ""

\* unique_together = ['sale', 'product']
SaleItem_is_unique(db, inst) ==
    ~\E o \in DOMAIN db.items \ {inst.pk} :
        db.items[o].sale = inst.sale /\ db.items[o].product = inst.product

\* the product re-read from the database at the time of the deduction
SelfProduct_refetched(db, inst) == db.products[inst.product]

\* self.product in SaleItem.save: the Product instance cached on the item
\* when the product was looked up, not a fresh read
SelfProduct(db, inst) == inst.product_obj

\* the product the edited form carries, in place of the stored item's
OriginalProduct_current(db, inst) == inst.product

\* original_item.product in SaleItem.save: the product of the stored row
OriginalProduct(db, inst) == db.items[inst.pk].product

\* the deduction with its sign reversed
Deducted_credits(product_obj, quantity) ==
    [product_obj EXCEPT !.current_stock = @ + quantity]

\* self.product.current_stock -= self.quantity
Deducted(product_obj, quantity) ==
    [product_obj EXCEPT !.current_stock = @ - quantity]

\* SaleItem.save
SaleItem_save(db, inst) ==
    IF SaleItem_clean(db, inst) # "" THEN Raise(SaleItem_clean(db, inst), db)
    ELSE
    LET \* the update branch: original_item and original_item.product are
        \* fetched from the database, credited and saved
        restored ==
            IF inst.pk \in DOMAIN db.items
            THEN LET original_item == db.items[inst.pk]
                     original_product == db.products[OriginalProduct(db, inst)]
                 IN Product_save(db, OriginalProduct(db, inst),
                        [original_product EXCEPT
                            !.current_stock = @ + original_item.quantity])
            ELSE Ok(db)
    IN IF ~restored.ok THEN restored
       ELSE IF ~SaleItem_is_unique(restored.db, inst)
            THEN Raise("IntegrityError", restored.db)
       ELSE
       LET pk == IF inst.pk = 0 THEN restored.db.seq.item + 1 ELSE inst.pk
           row == [sale |-> inst.sale, product |-> inst.product,
                   quantity |-> inst.quantity, unit_price |-> inst.unit_price]
           \* super().save()
           saved == [restored.db EXCEPT
                        !.items = (pk :> row) @@ @,
                        !.seq.item = IF inst.pk = 0 THEN @ + 1 ELSE @]
       IN Product_save(saved, inst.product,
              Deducted(SelfProduct(saved, inst), inst.quantity))

\* Model.delete of a SaleItem row: SaleItem overrides save only
SaleItem_delete(db, pk) == Ok([db EXCEPT !.items = Without(@, pk)])

(* ------------------------------------------------------------------ *)
(* StockTransaction                                                     *)
(* ------------------------------------------------------------------ *)
\* StockTransaction.save assigning the quantity to the stock
StockTransaction_save_assigns(db, pid, product_obj, quantity) ==
    LET pk == db.seq.txn + 1
        saved == [db EXCEPT
                     !.txns = (pk :> [product |-> pid, quantity |-> quantity]) @@ @,
                     !.seq.txn = @ + 1]
    IN Product_save(saved, pid,
           [product_obj EXCEPT !.current_stock = quantity])

\* StockTransaction.save of a new row for product pid; product_obj is the
\* Product instance cached on the transaction
StockTransaction_save(db, pid, product_obj, quantity) ==
    LET pk == db.seq.txn + 1
        saved == [db EXCEPT
                     !.txns = (pk :> [product |-> pid, quantity |-> quantity]) @@ @,
                     !.seq.txn = @ + 1]
    IN Product_save(saved, pid,
           [product_obj EXCEPT !.current_stock = @ + quantity])

(* ------------------------------------------------------------------ *)
(* Forms                                                                *)
(* ------------------------------------------------------------------ *)
\* the elements of a set of ids in increasing order
RECURSIVE Ordered(_)
Ordered(S) ==
    IF S = {} THEN <<>>
    ELSE LET m == CHOOSE x \in S : \A y \in S : x <= y
         IN <<m>> \o Ordered(S \ {m})

\* SaleItemForm.__init__ of the form for the stored item pk (0: a form for a
\* new item): TRUE when it returns. It reads self.instance.product, and
\* the instance behind a form for a new item has no product yet: reading
\* the unset, non-nullable foreign key raises RelatedObjectDoesNotExist.
SaleItemForm_init(pk) == pk # 0

\* formset.forms of a SaleItemFormSet bound to the stored items pks and the
\* new item forms adds: TRUE when every form is built
SaleItemFormSet_forms(pks, adds) ==
    /\ \A pk \in pks : SaleItemForm_init(pk)
    /\ \A p \in DOMAIN adds : SaleItemForm_init(0)

\* SaleItemForm.clean: TRUE when it raises nothing
SaleItemForm_clean(inst) ==
    ~(inst.quantity # 0 /\ inst.quantity > inst.product_obj.current_stock)

\* SaleItemForm.is_valid: the form's clean, then the model's clean and the
\* uniqueness check a ModelForm runs on the instance it built
SaleItemForm_is_valid(db, inst) ==
    /\ SaleItemForm_clean(inst)
    /\ SaleItem_clean(db, inst) = ""
    /\ SaleItem_is_unique(db, inst)

\* the ModelForm the admin inline builds for SaleItem: no clean of its own
SaleItemInlineForm_is_valid(db, inst) ==
    /\ SaleItem_clean(db, inst) = ""
    /\ SaleItem_is_unique(db, inst)

\* the instance a form builds: the product is looked up, and cached on the
\* instance, while the form is validated
FormInstance(db, pk, sid, f) ==
    Instance(pk, sid, f.product, db.products[f.product], f.quantity, f.unit_price)

\* instances.save() in a loop, as both sale views do it
RECURSIVE SaveInstances(_, _, _)
SaveInstances(db, insts, sid) ==
    IF insts = <<>> THEN Ok(db)
    ELSE LET r == SaleItem_save(db, [Head(insts) EXCEPT !.sale = sid])
         IN IF ~r.ok THEN r ELSE SaveInstances(r.db, Tail(insts), sid)

\* for instance in formset.deleted_objects: instance.delete()
RECURSIVE DeleteInstances(_, _)
DeleteInstances(db, pks) ==
    IF pks = <<>> THEN Ok(db)
    ELSE LET r == SaleItem_delete(db, Head(pks))
         IN IF ~r.ok THEN r ELSE DeleteInstances(r.db, Tail(pks))

(* ------------------------------------------------------------------ *)
(* Views                                                                *)
(* ------------------------------------------------------------------ *)
\* the instances the formset builds for its extra forms. adds maps each
\* product of a submitted item form to the form's [product, quantity,
\* unit_price].
NewInstances(db, sid, adds) ==
    [i \in 1..Len(Ordered(DOMAIN adds)) |->
        FormInstance(db, 0, sid, adds[Ordered(DOMAIN adds)[i]])]

\* the instances the formset builds for the stored items of sale sid that
\* are not marked for deletion, the unchanged ones included. edits maps the
\* pk of each changed item form to its [product, quantity, unit_price],
\* deletes is the set of pks whose form is marked DELETE.
ExistingInstances(db, sid, edits, deletes) ==
    [pk \in ItemsOf(db, sid) \ deletes |->
        IF pk \in DOMAIN edits
        THEN FormInstance(db, pk, sid, edits[pk])
        ELSE FormInstance(db, pk, sid, db.items[pk])]

\* formset.save(commit=False): the changed objects, then the new objects
FormsetInstances(db, sid, edits, deletes, adds) ==
    [i \in 1..Len(Ordered(DOMAIN edits \ deletes)) |->
        ExistingInstances(db, sid, edits, deletes)[Ordered(DOMAIN edits \ deletes)[i]]]
    \o NewInstances(db, sid, adds)

\* the formset's validate_unique across its own forms
FormsetDistinct(existing, adds) ==
    /\ \A a, b \in DOMAIN existing :
          existing[a].product = existing[b].product => a = b
    /\ \A a \in DOMAIN existing : existing[a].product \notin DOMAIN adds

\* formset.is_valid() in SaleCreateView.form_valid
SaleCreateView_is_valid(db, adds) ==
    \A i \in DOMAIN NewInstances(db, 0, adds) :
        SaleItemForm_is_valid(db, NewInstances(db, 0, adds)[i])

\* the transaction.atomic() block of SaleCreateView.form_valid, run on the
\* instances the validated formset built
SaleCreateView_atomic(db, new) ==
    Atomic(db,
        LET sale == Sale_save(db, 0, [sale_number |-> <<>>, total_amount |-> 0])
        IN IF ~sale.ok THEN sale
           ELSE LET sid == sale.db.seq.sale
                    saved == SaveInstances(sale.db, new, sid)
                IN IF ~saved.ok THEN saved
                   ELSE Sale_update_total(saved.db, sid))

\* SaleCreateView.form_valid: formset.is_valid() builds the forms before
\* the try block is entered
SaleCreateView_form_valid(db, adds) ==
    IF ~SaleItemFormSet_forms({}, adds)
    THEN Raise("RelatedObjectDoesNotExist", db)
    ELSE IF ~SaleCreateView_is_valid(db, adds)
    THEN Raise("Please correct the errors below.", db)
    ELSE SaleCreateView_atomic(db, NewInstances(db, 0, adds))

\* formset.is_valid() in SaleUpdateView.form_valid: every bound form that
\* is not marked for deletion is validated
SaleUpdateView_is_valid(db, sid, edits, deletes, adds) ==
    LET existing == ExistingInstances(db, sid, edits, deletes)
        new == NewInstances(db, sid, adds)
    IN /\ \A pk \in DOMAIN existing : SaleItemForm_is_valid(db, existing[pk])
       /\ \A i \in DOMAIN new : SaleItemForm_is_valid(db, new[i])
       /\ FormsetDistinct(existing, adds)

\* the transaction.atomic() block of SaleUpdateView.form_valid, run on the
\* Sale object the view loaded and the instances and deleted objects of
\* the validated formset
SaleUpdateView_atomic(db, sid, sale_obj, instances, deletes) ==
    LET original_quantities == [pk \in ItemsOf(db, sid) |-> db.items[pk].quantity]
        stock_errors ==
            {i \in DOMAIN instances :
                LET available_stock ==
                        instances[i].product_obj.current_stock
                          + (IF instances[i].pk \in DOMAIN original_quantities
                             THEN original_quantities[instances[i].pk] ELSE 0)
                IN instances[i].quantity > available_stock}
    IN IF stock_errors # {} THEN Raise("Insufficient stock.", db)
       ELSE Atomic(db,
            LET sale == Sale_save(db, sid, sale_obj)
            IN IF ~sale.ok THEN sale
               ELSE LET saved == SaveInstances(sale.db, instances, sid)
                    IN IF ~saved.ok THEN saved
                       ELSE LET gone == DeleteInstances(saved.db, Ordered(deletes))
                            IN IF ~gone.ok THEN gone
                               ELSE Sale_update_total(gone.db, sid))

\* SaleUpdateView.form_valid for sale sid: formset.is_valid() builds the
\* forms before the try block is entered
SaleUpdateView_form_valid(db, sid, edits, deletes, adds) ==
    IF ~SaleItemFormSet_forms(ItemsOf(db, sid), adds)
    THEN Raise("RelatedObjectDoesNotExist", db)
    ELSE IF ~SaleUpdateView_is_valid(db, sid, edits, deletes, adds)
    THEN Raise("Please correct the errors below.", db)
    ELSE SaleUpdateView_atomic(db, sid, db.sales[sid],
             FormsetInstances(db, sid, edits, deletes, adds), deletes)

\* the loop of SaleDeleteView.delete: each item's product is fetched,
\* credited with the item's quantity and saved
RECURSIVE RestoreStock(_, _)
RestoreStock(db, pks) ==
    IF pks = <<>> THEN Ok(db)
    ELSE LET item == db.items[Head(pks)]
             r == Product_save(db, item.product,
                      [db.products[item.product] EXCEPT
                          !.current_stock = @ + item.quantity])
         IN IF ~r.ok THEN r ELSE RestoreStock(r.db, Tail(pks))

\* Sale.delete: SaleItem.sale is on_delete=PROTECT
Sale_delete(db, sid) ==
    IF ItemsOf(db, sid) # {} THEN Raise("ProtectedError", db)
    ELSE Ok([db EXCEPT !.sales = Without(@, sid)])

\* SaleDeleteView.delete
SaleDeleteView_delete(db, sid) ==
    Atomic(db,
        LET restored == RestoreStock(db, Ordered(ItemsOf(db, sid)))
        IN IF ~restored.ok THEN restored
           ELSE Sale_delete(restored.db, sid))

\* ProductCreateView.form_valid / ProductUpdateView.form_valid: the
\* ProductForm is validated and saved; pid is 0 for the create view
ProductView_form_valid(db, pid, obj) ==
    IF ~ProductForm_is_valid(obj)
    THEN Raise("Selling price cannot be less than buying price.", db)
    ELSE IF ~ProductForm_validate_unique(db, pid, obj)
    THEN Raise("Product with this Sku already exists.", db)
    ELSE Product_save(db, pid, obj)

\* the message ProductDeleteView.delete shows for a product with sales
HasSalesRecords == "Cannot delete because it has sales records."

\* ProductDeleteView.delete
ProductDeleteView_delete(db, pid) ==
    IF \E i \in DOMAIN db.items : db.items[i].product = pid
    THEN Raise(HasSalesRecords, db)
    ELSE Product_delete(db, pid)

\* ProductDeleteView answering a POST. Which method DeleteView.post runs
\* depends on the installed Django: before 4.0 it is self.delete(), from
\* 4.0 on it is form_valid(), which calls self.object.delete() and never
\* enters the overridden delete().
ProductDeleteView_post(db, pid, calls_delete) ==
    IF calls_delete THEN ProductDeleteView_delete(db, pid)
    ELSE Product_delete(db, pid)

\* the queryset with current_stock__lt in place of current_stock__lte
low_stock_report_lt(db) ==
    {p \in DOMAIN db.products :
        /\ db.products[p].current_stock < db.products[p].min_stock_level
        /\ db.products[p].is_active = TRUE}

\* low_stock_report: the products the queryset selects
low_stock_report(db) ==
    {p \in DOMAIN db.products :
        /\ db.products[p].current_stock <= db.products[p].min_stock_level
        /\ db.products[p].is_active = TRUE}

(* ------------------------------------------------------------------ *)
(* The populate_data command                                            *)
(* ------------------------------------------------------------------ *)
\* stock_transaction.save() for each quantity in turn, all on the same
\* Product instance; the first exception ends the command, and nothing
\* opens a transaction around the saves
RECURSIVE SaveTransactions(_, _, _, _)
SaveTransactions(db, pid, product_obj, quantities) ==
    IF quantities = <<>> THEN Ok(db)
    ELSE LET r == StockTransaction_save(db, pid, product_obj, Head(quantities))
         IN IF ~r.ok THEN r
            ELSE SaveTransactions(r.db, pid, r.db.products[pid], Tail(quantities))

\* Command.create_stock_transactions over the fetched products pids:
\* an initial stock-in of current_stock for a product that has stock,
\* then the additional transactions drawn for it
RECURSIVE create_stock_transactions(_, _, _, _)
create_stock_transactions(db, fetched, pids, additional) ==
    IF pids = <<>> THEN Ok(db)
    ELSE LET product == fetched[Head(pids)]
             initial == IF product.current_stock > 0
                        THEN <<product.current_stock>> ELSE <<>>
             r == SaveTransactions(db, Head(pids), product,
                                   initial \o additional[Head(pids)])
         IN IF ~r.ok THEN r
            ELSE create_stock_transactions(r.db, fetched, Tail(pids), additional)

\* Command.handle with --products 0 --sales 0: create_products creates
\* nothing and returns list(Product.objects.all()), create_sales creates
\* nothing, and create_stock_transactions runs on the stored products
Command_handle(db, additional) ==
    IF DOMAIN db.products = {} THEN Ok(db)
    ELSE create_stock_transactions(db, db.products,
                                   Ordered(DOMAIN db.products), additional)

(* ------------------------------------------------------------------ *)
(* Admin                                                                *)
(* ------------------------------------------------------------------ *)
\* admin.site.register(StockTransaction): the add view validates the
\* form, which looks the product up, and saves the new row inside the
\* admin's transaction.atomic()
StockTransactionAdmin_add(db, pid, quantity) ==
    Atomic(db, StockTransaction_save(db, pid, db.products[pid], quantity))

\* SaleAdmin with SaleItemInline: the add view validates the inline forms,
\* saves the new sale and then the inline formset inside the admin's
\* transaction.atomic(); total_amount is read-only there and keeps its
\* default. adds is as in SaleCreateView_form_valid.
SaleAdmin_add(db, adds) ==
    LET new == NewInstances(db, 0, adds)
    IN IF ~\A i \in DOMAIN new : SaleItemInlineForm_is_valid(db, new[i])
       THEN Raise("Please correct the errors below.", db)
       ELSE Atomic(db,
            LET sale == Sale_save(db, 0, [sale_number |-> <<>>, total_amount |-> 0])
            IN IF ~sale.ok THEN sale
               ELSE SaveInstances(sale.db, new, sale.db.seq.sale))

\* SaleAdmin with SaleItemInline: the change view of sale sid saves the
\* sale and then its inline formset inside the admin's transaction.atomic();
\* total_amount is read-only there. edits, deletes and adds are as in
\* SaleUpdateView_form_valid.
SaleAdmin_change(db, sid, edits, deletes, adds) ==
    LET existing == ExistingInstances(db, sid, edits, deletes)
        new == NewInstances(db, sid, adds)
    IN IF ~(/\ \A pk \in DOMAIN existing :
                  SaleItemInlineForm_is_valid(db, existing[pk])
            /\ \A i \in DOMAIN new : SaleItemInlineForm_is_valid(db, new[i])
            /\ FormsetDistinct(existing, adds))
       THEN Raise("Please correct the errors below.", db)
       ELSE Atomic(db,
            LET sale == Sale_save(db, sid, db.sales[sid])
            IN IF ~sale.ok THEN sale
               ELSE LET gone == DeleteInstances(sale.db, Ordered(deletes))
                    IN IF ~gone.ok THEN gone
                       ELSE SaveInstances(gone.db,
                                FormsetInstances(db, sid, edits, deletes, adds),
                                sid))

(* ------------------------------------------------------------------ *)
(* Requests                                                             *)
(* ------------------------------------------------------------------ *)
\* what a ProductForm can carry
ProductObjs ==
    [sku : {<<>>}, buying_price : BuyingPrices, selling_price : SellingPrices,
     current_stock : Stocks, min_stock_level : {MinStockLevelDefault},
     is_active : {TRUE}]

\* the SKUs typed into a ProductForm: none, or one that Product.save can
\* generate
Skus == {<<>>, FormatSku(2)}

\* what a ProductForm can carry when the low-stock settings are filled in
MinStockLevels == 0..MaxStock
SettingsObjs ==
    [sku : {<<>>}, buying_price : BuyingPrices, selling_price : {1},
     current_stock : Stocks, min_stock_level : MinStockLevels,
     is_active : BOOLEAN]

\* the additional transactions the command draws for each product
Additional(P) == [P -> {<<>>} \cup {<<d>> : d \in Deltas}]

\* what an item form can carry for product p
ItemForms(p) ==
    {[product |-> p, quantity |-> q, unit_price |-> u] :
        q \in Qtys, u \in UnitPrices}

\* the new item forms of a request: at most one per product in P
AddsOver(P) ==
    UNION {{a \in [S -> UNION {ItemForms(p) : p \in P}] :
               \A p \in S : a[p].product = p} :
           S \in SUBSET P}

\* a sale update request that leaves every item form as it is
NoChange == [edits |-> <<>>, deletes |-> {}, adds |-> <<>>]

\* the sale update requests drawn for sale sid: one that changes nothing,
\* and those that change one item form (to values other than the stored
\* ones), mark one for deletion, or add one
FormsetRequests(db, sid) ==
    {NoChange}
    \cup {[NoChange EXCEPT !.edits = (pk :> f)] :
             pk \in ItemsOf(db, sid),
             f \in UNION {ItemForms(p) : p \in DOMAIN db.products}}
    \cup {[NoChange EXCEPT !.deletes = {pk}] : pk \in ItemsOf(db, sid)}
    \cup {[NoChange EXCEPT !.adds = (f.product :> f)] :
             f \in UNION {ItemForms(p) : p \in DOMAIN db.products}}

\* has_changed() of the item form of row pk carrying f
HasChanged(db, pk, f) ==
    f # [product |-> db.items[pk].product,
         quantity |-> db.items[pk].quantity,
         unit_price |-> db.items[pk].unit_price]

(* ------------------------------------------------------------------ *)
(* The state machine                                                    *)
(* ------------------------------------------------------------------ *)
\* The database after migration: four empty tables. stock0 remembers each
\* product's stock at creation; last is the latest request and its outcome;
\* report is the latest low-stock report.
Init ==
    /\ products = <<>>
    /\ sales = <<>>
    /\ items = <<>>
    /\ txns = <<>>
    /\ seq = [product |-> 0, sale |-> 0, item |-> 0, txn |-> 0]
    /\ stock0 = <<>>
    /\ last = [op |-> "none", ok |-> TRUE, err |-> "", sale |-> 0,
               stale |-> FALSE, moved |-> FALSE]
    /\ requests = 0
    /\ pending = {}
    /\ issued = {}
    /\ report = {}

\* the request op on sale sid ended as r: the database is what r left.
\* stale tells whether the request saved from a Product instance that no
\* longer was what the database held; moved tells whether the request
\* changed the product of a stored item. issued collects every sale number
\* a stored sale has carried.
Respond(op, sid, stale, response) == \E r \in {response} :
    /\ requests' = requests + 1
    /\ products' = r.db.products
    /\ sales' = r.db.sales
    /\ items' = r.db.items
    /\ txns' = r.db.txns
    /\ seq' = r.db.seq
    /\ stock0' = [p \in DOMAIN r.db.products |->
                     IF p \in DOMAIN stock0 THEN stock0[p]
                     ELSE r.db.products[p].current_stock]
    /\ last' = [op |-> op, ok |-> r.ok, err |-> r.err, sale |-> sid,
                stale |-> stale,
                moved |-> \E pk \in DOMAIN items \cap DOMAIN r.db.items :
                             r.db.items[pk].product # items[pk].product]
    /\ issued' = issued \cup {r.db.sales[k].sale_number : k \in DOMAIN r.db.sales}
    /\ report' = report

ProductCreate(obj) ==
    /\ seq.product < MaxProducts
    /\ Respond("ProductCreate", 0, FALSE, ProductView_form_valid(DB, 0, obj))
    /\ UNCHANGED pending

ProductUpdate(pid, obj) ==
    /\ pid \in DOMAIN products
    /\ Respond("ProductUpdate", 0, FALSE, ProductView_form_valid(DB, pid, obj))
    /\ UNCHANGED pending

StockTransactionAdd(pid, quantity) ==
    /\ seq.txn < MaxTxns
    /\ pid \in DOMAIN products
    /\ Respond("StockTransactionAdd", 0, FALSE, StockTransactionAdmin_add(DB, pid, quantity))
    /\ UNCHANGED pending

SaleCreate(adds) ==
    /\ seq.sale < MaxSales
    /\ seq.item + Cardinality(DOMAIN adds) <= MaxItems
    /\ Respond("SaleCreate", seq.sale + 1, FALSE, SaleCreateView_form_valid(DB, adds))
    /\ UNCHANGED pending

SaleUpdate(sid, edits, deletes, adds) ==
    /\ sid \in DOMAIN sales
    /\ seq.item + Cardinality(DOMAIN adds) <= MaxItems
    /\ Respond("SaleUpdate", sid, FALSE, SaleUpdateView_form_valid(DB, sid, edits, deletes, adds))
    /\ UNCHANGED pending

SaleDelete(sid) ==
    /\ sid \in DOMAIN sales
    /\ Respond("SaleDelete", sid, FALSE, SaleDeleteView_delete(DB, sid))
    /\ UNCHANGED pending

SaleAdminChange(sid, edits, deletes, adds) ==
    /\ sid \in DOMAIN sales
    /\ seq.item + Cardinality(DOMAIN adds) <= MaxItems
    /\ Respond("SaleAdminChange", sid, FALSE, SaleAdmin_change(DB, sid, edits, deletes, adds))
    /\ UNCHANGED pending

SaleAdminAdd(adds) ==
    /\ seq.sale < MaxSales
    /\ seq.item + Cardinality(DOMAIN adds) <= MaxItems
    /\ Respond("SaleAdminAdd", seq.sale + 1, FALSE, SaleAdmin_add(DB, adds))
    /\ UNCHANGED pending

ProductCreateRequest ==
    /\ requests < MaxRequests
    /\ \E obj \in ProductObjs : ProductCreate(obj)

ProductUpdateRequest ==
    /\ requests < MaxRequests
    /\ \E pid \in DOMAIN products, obj \in ProductObjs : ProductUpdate(pid, obj)

StockTransactionAddRequest ==
    /\ requests < MaxRequests
    /\ \E pid \in DOMAIN products, d \in Deltas : StockTransactionAdd(pid, d)

SaleCreateRequest ==
    /\ requests < MaxRequests
    /\ \E adds \in AddsOver(DOMAIN products) : SaleCreate(adds)

SaleUpdateRequest ==
    /\ requests < MaxRequests
    /\ \E sid \in DOMAIN sales :
         \E req \in FormsetRequests(DB, sid) :
            /\ \A pk \in DOMAIN req.edits : HasChanged(DB, pk, req.edits[pk])
            /\ SaleUpdate(sid, req.edits, req.deletes, req.adds)

SaleDeleteRequest ==
    /\ requests < MaxRequests
    /\ \E sid \in DOMAIN sales : SaleDelete(sid)

SaleAdminChangeRequest ==
    /\ requests < MaxRequests
    /\ \E sid \in DOMAIN sales :
         \E req \in FormsetRequests(DB, sid) :
            /\ \A pk \in DOMAIN req.edits : HasChanged(DB, pk, req.edits[pk])
            /\ SaleAdminChange(sid, req.edits, req.deletes, req.adds)

SaleAdminAddRequest ==
    /\ requests < MaxRequests
    /\ \E adds \in AddsOver(DOMAIN products) : SaleAdminAdd(adds)

Next ==
    \/ ProductCreateRequest
    \/ ProductUpdateRequest
    \/ StockTransactionAddRequest
    \/ SaleCreateRequest
    \/ SaleUpdateRequest
    \/ SaleDeleteRequest
    \/ SaleAdminChangeRequest
    \/ SaleAdminAddRequest

Spec == Init /\ [][Next]_vars

(* ------------------------------------------------------------------ *)
(* The catalogue: typed SKUs, product deletion, populate_data           *)
(* ------------------------------------------------------------------ *)
ProductDelete(pid, calls_delete) ==
    /\ pid \in DOMAIN products
    /\ Respond("ProductDelete", 0, FALSE, ProductDeleteView_post(DB, pid, calls_delete))
    /\ UNCHANGED pending

PopulateData(additional) ==
    /\ Command_handle(DB, additional).db.seq.txn <= MaxTxns
    /\ Respond("PopulateData", 0, FALSE, Command_handle(DB, additional))
    /\ UNCHANGED pending

ProductCreateSkuRequest ==
    /\ requests < MaxRequests
    /\ \E obj \in ProductObjs, sku \in Skus :
          ProductCreate([obj EXCEPT !.sku = sku])

ProductDeleteRequest ==
    /\ requests < MaxRequests
    /\ \E pid \in DOMAIN products, calls_delete \in BOOLEAN :
          ProductDelete(pid, calls_delete)

PopulateDataRequest ==
    /\ requests < MaxRequests
    /\ \E additional \in Additional(DOMAIN products) : PopulateData(additional)

NextCatalog ==
    \/ Next
    \/ ProductCreateSkuRequest
    \/ ProductDeleteRequest
    \/ PopulateDataRequest

SpecCatalog == Init /\ [][NextCatalog]_vars

(* ------------------------------------------------------------------ *)
(* The low-stock report                                                 *)
(* ------------------------------------------------------------------ *)
LowStockReport ==
    /\ report' = low_stock_report(DB)
    /\ last' = [op |-> "low_stock_report", ok |-> TRUE, err |-> "",
                sale |-> 0, stale |-> FALSE, moved |-> FALSE]
    /\ requests' = requests + 1
    /\ UNCHANGED <<products, sales, items, txns, seq, stock0, pending, issued>>

ProductSettingsCreateRequest ==
    /\ requests < MaxRequests
    /\ \E obj \in SettingsObjs : ProductCreate(obj)

ProductSettingsUpdateRequest ==
    /\ requests < MaxRequests
    /\ \E pid \in DOMAIN products, obj \in SettingsObjs : ProductUpdate(pid, obj)

LowStockReportRequest ==
    /\ requests < MaxRequests
    /\ LowStockReport

NextReport ==
    \/ ProductSettingsCreateRequest
    \/ ProductSettingsUpdateRequest
    \/ StockTransactionAddRequest
    \/ LowStockReportRequest

SpecReport == Init /\ [][NextReport]_vars

(* ------------------------------------------------------------------ *)
(* Requests in flight                                                   *)
(* ------------------------------------------------------------------ *)
\* Both sale views call formset.is_valid() before they enter
\* transaction.atomic(): the instances the formset built, each with the
\* Product it looked up, wait in pending while other requests are served.

\* SaleCreateView.form_valid up to the with transaction.atomic() line
SaleCreateValidate(adds) ==
    /\ SaleItemFormSet_forms({}, adds)
    /\ SaleCreateView_is_valid(DB, adds)
    /\ pending' = pending \cup
           {[op |-> "SaleCreate", sale |-> 0,
             sale_obj |-> [sale_number |-> <<>>, total_amount |-> 0],
             instances |-> NewInstances(DB, 0, adds), deletes |-> {}]}
    /\ UNCHANGED <<products, sales, items, txns, seq, stock0, last, requests,
                   issued, report>>

\* SaleUpdateView.form_valid up to the with transaction.atomic() line
SaleUpdateValidate(sid, edits, deletes, adds) ==
    /\ sid \in DOMAIN sales
    /\ SaleItemFormSet_forms(ItemsOf(DB, sid), adds)
    /\ SaleUpdateView_is_valid(DB, sid, edits, deletes, adds)
    /\ pending' = pending \cup
           {[op |-> "SaleUpdate", sale |-> sid, sale_obj |-> sales[sid],
             instances |-> FormsetInstances(DB, sid, edits, deletes, adds),
             deletes |-> deletes]}
    /\ UNCHANGED <<products, sales, items, txns, seq, stock0, last, requests,
                   issued, report>>

\* some instance of pd carries a Product that is no longer what is stored
Stale(pd) ==
    \E i \in DOMAIN pd.instances :
        pd.instances[i].product_obj # products[pd.instances[i].product]

\* the instances of pd that have never been saved
Unsaved(pd) == {i \in DOMAIN pd.instances : pd.instances[i].pk = 0}

\* SaleCreateView.form_valid from the with transaction.atomic() line on
SaleCreateCommit(pd) ==
    /\ pd.op = "SaleCreate"
    /\ seq.sale < MaxSales
    /\ seq.item + Cardinality(Unsaved(pd)) <= MaxItems
    /\ pending' = pending \ {pd}
    /\ Respond("SaleCreateCommit", seq.sale + 1, Stale(pd),
               SaleCreateView_atomic(DB, pd.instances))

\* SaleUpdateView.form_valid from the with transaction.atomic() line on
SaleUpdateCommit(pd) ==
    /\ pd.op = "SaleUpdate"
    /\ seq.item + Cardinality(Unsaved(pd)) <= MaxItems
    /\ pending' = pending \ {pd}
    /\ Respond("SaleUpdateCommit", pd.sale, Stale(pd),
               SaleUpdateView_atomic(DB, pd.sale, pd.sale_obj,
                                     pd.instances, pd.deletes))

SaleCreateValidateRequest ==
    /\ requests < MaxRequests
    /\ Cardinality(pending) < MaxPending
    /\ \E adds \in AddsOver(DOMAIN products) : SaleCreateValidate(adds)

SaleUpdateValidateRequest ==
    /\ requests < MaxRequests
    /\ Cardinality(pending) < MaxPending
    /\ \E sid \in DOMAIN sales :
         \E req \in FormsetRequests(DB, sid) :
            /\ \A pk \in DOMAIN req.edits : HasChanged(DB, pk, req.edits[pk])
            /\ SaleUpdateValidate(sid, req.edits, req.deletes, req.adds)

SaleCreateCommitRequest ==
    /\ requests < MaxRequests
    /\ \E pd \in pending : SaleCreateCommit(pd)

SaleUpdateCommitRequest ==
    /\ requests < MaxRequests
    /\ \E pd \in pending : SaleUpdateCommit(pd)

NextRace ==
    \/ Next
    \/ SaleCreateValidateRequest
    \/ SaleUpdateValidateRequest
    \/ SaleCreateCommitRequest
    \/ SaleUpdateCommitRequest

SpecRace == Init /\ [][NextRace]_vars

(* ------------------------------------------------------------------ *)
(* Properties                                                           *)
(* ------------------------------------------------------------------ *)
\* the sum of the quantity column over the rows S of table t
RECURSIVE SumQuantity(_, _)
SumQuantity(t, S) ==
    IF S = {} THEN 0
    ELSE LET k == CHOOSE x \in S : TRUE
         IN t[k].quantity + SumQuantity(t, S \ {k})

RowsOfProduct(t, p) == {k \in DOMAIN t : t[k].product = p}

Stock(p) == products[p].current_stock

\* the item rows this step inserted, removed, and kept
Inserted == DOMAIN items' \ DOMAIN items
Removed == DOMAIN items \ DOMAIN items'
Kept == DOMAIN items \cap DOMAIN items'

\* this step served a request that saves sale items
SavesItems ==
    last'.op \in {"SaleCreate", "SaleUpdate", "SaleAdminAdd", "SaleAdminChange"}

\* this step refused its request and left the tables as they were
Refused ==
    /\ ~last'.ok
    /\ products' = products /\ sales' = sales /\ items' = items
    /\ txns' = txns

\* C1: every product's current_stock equals its stock at creation plus the
\* quantities of its persisted stock transactions minus the quantities of
\* the persisted sale items that reference it.
C1_StockIsLedgerBalance ==
    \A p \in DOMAIN products :
        Stock(p) = stock0[p] + SumQuantity(txns, RowsOfProduct(txns, p))
                             - SumQuantity(items, RowsOfProduct(items, p))

\* C2: no product's persisted current_stock is ever negative, whatever
\* the order in which requests are served and however the sale views'
\* validation and transaction.atomic() blocks interleave.
C2_StockNeverNegative == \A p \in DOMAIN products : Stock(p) >= 0

\* C2 witness: a sale update has saved an item from a Product instance
\* looked up before another request changed that product's stock, and a
\* product stands at zero.
C2_Witness ==
    /\ last.op = "SaleUpdateCommit" /\ last.ok /\ last.stale
    /\ \E p \in DOMAIN products : Stock(p) = 0

\* C3: a request that succeeds and only creates sale items lowers the
\* stock of each new item's product by exactly the item's quantity and
\* leaves the stock of every other product as it was.
C3_CreateDeductsExactly ==
    [][(/\ SavesItems /\ last'.ok
        /\ Inserted # {} /\ Removed = {}
        /\ \A pk \in Kept : items'[pk] = items[pk]) =>
           \A p \in DOMAIN products :
               products'[p].current_stock =
                   Stock(p) - SumQuantity(items',
                                  RowsOfProduct(items', p) \cap Inserted)]_vars

\* C3 witness: a sale was added with one item while a second product
\* exists.
C3_Witness ==
    /\ last.op = "SaleAdminAdd" /\ last.ok
    /\ Cardinality(ItemsOf(DB, last.sale)) = 1
    /\ Cardinality(DOMAIN products) = 2

\* C4: an accepted edit of an existing sale item from quantity q1 to q2 on
\* the same product takes the product's stock from S to S + q1 - q2; with
\* q2 = q1 the stock stays as it was.
C4_EditChangesStockByDifference ==
    [][(SavesItems /\ last'.ok) =>
         \A pk \in Kept :
            (/\ items'[pk] # items[pk]
             /\ items'[pk].product = items[pk].product) =>
                products'[items[pk].product].current_stock =
                    Stock(items[pk].product) + items[pk].quantity
                                             - items'[pk].quantity]_vars

\* C5: deleting a sale that has items succeeds, removes the sale and its
\* items, and gives each item's quantity back to its product.
C5_DeleteSaleRestoresStock ==
    [][(/\ last'.op = "SaleDelete"
        /\ last'.sale \in DOMAIN sales
        /\ ItemsOf(DB, last'.sale) # {}) =>
           /\ last'.ok
           /\ last'.sale \notin DOMAIN sales'
           /\ ItemsOf(DB, last'.sale) \cap DOMAIN items' = {}
           /\ \A p \in DOMAIN products :
                products'[p].current_stock =
                    Stock(p) + SumQuantity(items,
                                   RowsOfProduct(items, p)
                                     \cap ItemsOf(DB, last'.sale))]_vars

\* C6: whenever a sale item of quantity q is deleted, the stock of its
\* product rises by exactly q.
C6_DeleteItemRestoresStock ==
    [][\A pk \in Removed :
         products'[items[pk].product].current_stock =
             Stock(items[pk].product) + items[pk].quantity]_vars

\* C7: every sale's total_amount equals the sum of quantity * unit_price
\* over its persisted items, 0 when it has none.
C7_TotalIsSumOfSubtotals ==
    \A sid \in DOMAIN sales :
        sales[sid].total_amount = SumSubtotals(DB, ItemsOf(DB, sid))

\* the response of a request whose forms did not validate
FormErrors == "Please correct the errors below."

\* a new item form of the request asks for more than the product has
Oversells(adds) == \E p \in DOMAIN adds : adds[p].quantity > Stock(p)

\* C8: creating a sale item whose quantity exceeds the product's
\* current_stock is refused with a validation error and changes nothing:
\* no step inserts such an item, a refused request leaves the tables as
\* they were, and no request that asks for such an item ends in any other
\* failure than the form's validation error.
C8_OversellRejected ==
    [][SavesItems =>
         /\ \A pk \in Inserted :
               items'[pk].quantity <= Stock(items'[pk].product)
         /\ ~last'.ok => Refused
         /\ (~last'.ok /\ last'.err # FormErrors) =>
               /\ last'.op = "SaleCreate" =>
                     \A adds \in AddsOver(DOMAIN products) :
                         Oversells(adds) => ~SaleCreate(adds)
               /\ last'.op = "SaleAdminAdd" =>
                     \A adds \in AddsOver(DOMAIN products) :
                         Oversells(adds) => ~SaleAdminAdd(adds)
               /\ last'.op = "SaleUpdate" =>
                     \A req \in FormsetRequests(DB, last'.sale) :
                         Oversells(req.adds) =>
                             ~SaleUpdate(last'.sale, req.edits,
                                         req.deletes, req.adds)
               /\ last'.op = "SaleAdminChange" =>
                     \A req \in FormsetRequests(DB, last'.sale) :
                         Oversells(req.adds) =>
                             ~SaleAdminChange(last'.sale, req.edits,
                                              req.deletes, req.adds)]_vars

\* C9: every persisted product has selling_price >= buying_price.
C9_SellingAtLeastBuying ==
    \A p \in DOMAIN products :
        products[p].selling_price >= products[p].buying_price

\* C9 witness: a product form with selling_price below buying_price was
\* submitted for an existing product and refused.
C9_Witness ==
    /\ last.op = "ProductUpdate" /\ ~last.ok
    /\ DOMAIN products # {}

\* the highest numeric suffix among the sale numbers of the table, 0 when
\* it is empty
HighestSuffix(t) ==
    IF DOMAIN t = {} THEN 0
    ELSE Max({ParseSaleNumber(t[k].sale_number) : k \in DOMAIN t})

\* C10: a sale creation whose forms are built and validate saves the sale
\* under the number SALE- followed by the zero-padded (highest numeric
\* suffix among the existing sales) + 1, which is 1 when no sale exists.
C10_NumberIsHighestSuffixPlusOne ==
    [][(/\ last'.op \in {"SaleCreate", "SaleAdminAdd"}
        /\ last'.err \notin {FormErrors, "RelatedObjectDoesNotExist"}) =>
         /\ last'.ok
         /\ last'.sale \in DOMAIN sales' \ DOMAIN sales
         /\ sales'[last'.sale].sale_number =
              FormatSaleNumber(HighestSuffix(sales) + 1)]_vars

\* C10 witness: a sale was created after an earlier sale had been deleted,
\* while another sale exists.
C10_Witness ==
    /\ last.op = "SaleCreate" /\ last.ok
    /\ Cardinality(DOMAIN sales) = 2
    /\ seq.sale = 3

\* C11: the deletion of a product that a sale item references is refused
\* with the view's message and leaves the product, its stock, its stock
\* transactions and its sale items as they were; the deletion of a product
\* that no sale item references removes it.
C11_DeleteRefusedWithMessage ==
    [][\A pid \in DOMAIN products, calls_delete \in BOOLEAN :
         ProductDelete(pid, calls_delete) =>
            IF RowsOfProduct(items, pid) # {}
            THEN /\ ~last'.ok /\ last'.err = HasSalesRecords
                 /\ products' = products /\ items' = items
                 /\ txns' = txns /\ sales' = sales
            ELSE /\ last'.ok
                 /\ pid \notin DOMAIN products']_vars

\* this step served a request that writes a sale: the two sale views,
\* whole or from their transaction.atomic() line on, and the sale admin
WritesSale ==
    last'.op \in {"SaleCreate", "SaleUpdate", "SaleCreateCommit",
                  "SaleUpdateCommit", "SaleAdminAdd", "SaleAdminChange"}

OthersKept(pid) ==
    \A p \in DOMAIN products \ {pid} :
        products'[p].current_stock = Stock(p)

\* C13, as stated: every stock transaction written with signed quantity d
\* for a product with stock S leaves the stock at S + d, for every d, and
\* changes no other product's stock.
C13_EveryDeltaApplied ==
    [][\A pid \in DOMAIN products, d \in Deltas :
         StockTransactionAdd(pid, d) =>
            /\ products'[pid].current_stock = Stock(pid) + d
            /\ OthersKept(pid)]_vars

\* C13, amended: a stock transaction with signed quantity d for a product
\* with stock S is written, with no approval step, whenever S + d >= 0
\* and then leaves the stock at S + d; when S + d < 0 the write is
\* refused and the stock stays S. No other product's stock changes.
C13_DeltaAppliedUnlessNegative ==
    [][\A pid \in DOMAIN products, d \in Deltas :
         StockTransactionAdd(pid, d) =>
            /\ OthersKept(pid)
            /\ IF Stock(pid) + d >= 0
               THEN /\ last'.ok
                    /\ products'[pid].current_stock = Stock(pid) + d
               ELSE /\ ~last'.ok
                    /\ products'[pid].current_stock = Stock(pid)]_vars

\* C13 witness: a stock transaction with a negative quantity was written.
C13_Witness ==
    /\ last.op = "StockTransactionAdd" /\ last.ok
    /\ \E k \in DOMAIN txns : txns[k].quantity < 0

\* C14: a stock transaction write is atomic: a write that fails leaves no
\* ledger row behind and the stock as it was, so that the row is stored
\* exactly when the stock includes its quantity.
C14_TransactionWriteAtomic ==
    [][(/\ last'.op \in {"StockTransactionAdd", "PopulateData"}
        /\ ~last'.ok) =>
          /\ txns' = txns
          /\ products' = products]_vars

\* C15: the low-stock report lists exactly the products that are active
\* and whose current_stock is at most their min_stock_level, the boundary
\* included and inactive products excluded, and it lists an active product
\* exactly when Product.is_low_stock holds of it.
C15_ReportIsActiveLowStock ==
    [][last'.op = "low_stock_report" =>
         /\ \A p \in DOMAIN products :
               p \in report' <=>
                  (/\ products[p].is_active
                   /\ products[p].current_stock <= products[p].min_stock_level)
         /\ report' \subseteq DOMAIN products
         /\ \A p \in DOMAIN products :
               products[p].is_active =>
                  (p \in report' <=> Product_is_low_stock(products[p]))]_vars

\* C15 witness: the report was rendered while an active product stood
\* exactly at its min_stock_level, and is listed, and an inactive product
\* stood below its level, and is not.
C15_Witness ==
    /\ last.op = "low_stock_report"
    /\ \E p \in report :
          products[p].current_stock = products[p].min_stock_level
    /\ \E p \in DOMAIN products \ report :
          /\ ~products[p].is_active
          /\ products[p].current_stock < products[p].min_stock_level

\* C16: nothing protects the read-modify-write of current_stock. A sale
\* update that commits an item saves the stock it computed from the
\* Product it read at validation, whatever other requests have written to
\* that product since: their update is lost, and both requests succeed.
C16_CommitOverwritesFromStaleRead ==
    [][\A pd \in pending :
         (/\ SaleUpdateCommit(pd) /\ last'.ok
          /\ Len(pd.instances) = 1) =>
            products'[pd.instances[1].product].current_stock =
                pd.instances[1].product_obj.current_stock
                  - pd.instances[1].quantity]_vars

\* C16 witness: a sale update committed an item from a Product read before
\* a stock transaction took stock out of the same product; both writes
\* succeeded.
C16_Witness ==
    /\ last.op = "SaleUpdateCommit" /\ last.ok /\ last.stale
    /\ \E i \in ItemsOf(DB, last.sale), k \in DOMAIN txns :
          /\ txns[k].product = items[i].product
          /\ txns[k].quantity < 0
          /\ Cardinality(DOMAIN products) = 1

\* C17: a request that edits one existing sale item (quantity q1, product
\* stock S) to quantity q2 on the same product is accepted, and q2 saved,
\* whenever q2 <= S + q1, and rejected when q2 > S + q1.
C17_EditAcceptedUpToRestoredStock ==
    [][\A sid \in DOMAIN sales :
         \A req \in FormsetRequests(DB, sid) :
           \A pk \in DOMAIN req.edits :
             (/\ req.edits[pk].product = items[pk].product
              /\ HasChanged(DB, pk, req.edits[pk])
              /\ \/ SaleUpdate(sid, req.edits, req.deletes, req.adds)
                 \/ SaleAdminChange(sid, req.edits, req.deletes, req.adds)) =>
                IF req.edits[pk].quantity
                      <= Stock(items[pk].product) + items[pk].quantity
                THEN /\ last'.ok
                     /\ items'[pk].quantity = req.edits[pk].quantity
                ELSE /\ ~last'.ok
                     /\ items' = items]_vars

\* C18: the creation of a product whose form is valid and leaves the SKU
\* blank succeeds and stores the product under a SKU that no product
\* existing before carries, after any sequence of creations and deletions.
C18_GeneratedSkuIsFresh ==
    [][\A obj \in ProductObjs :
         (/\ obj.sku = <<>>
          /\ ProductForm_is_valid(obj)
          /\ ProductCreate(obj)) =>
            /\ last'.ok
            /\ \E pid \in DOMAIN products' \ DOMAIN products :
                  \A o \in DOMAIN products :
                      products'[pid].sku # products[o].sku]_vars

\* C19: a sale's number is assigned once: every stored sale has a number,
\* no step changes the number of a sale that stays stored, and no two
\* stored sales ever share a number.
C19_NumberAssignedOnce ==
    [][/\ \A sid \in DOMAIN sales' : sales'[sid].sale_number # <<>>
       /\ \A sid \in DOMAIN sales \cap DOMAIN sales' :
             sales'[sid].sale_number = sales[sid].sale_number
       /\ \A a, b \in DOMAIN sales' :
             sales'[a].sale_number = sales'[b].sale_number => a = b]_vars

\* C19 witness: the sale update view saved a sale again, and recomputed
\* its total, while a sale created later is stored.
C19_Witness ==
    /\ last.op = "SaleUpdate" /\ last.ok
    /\ \E later \in DOMAIN sales : later > last.sale

\* C20: a sale number is never reused: a newly created sale is stored
\* under a number that no sale, stored now or deleted since, has ever
\* carried.
C20_NumberNeverReused ==
    [][last'.op \in {"SaleCreate", "SaleAdminAdd"} =>
         \A sid \in DOMAIN sales' \ DOMAIN sales :
             sales'[sid].sale_number \notin issued]_vars

\* C21: a request that is accepted and changes the product of a stored
\* sale item from A to B, from quantity q1 to quantity q2, raises A's
\* stock by exactly q1 and lowers B's by exactly q2, and it is accepted
\* only when q2 is at most the stock B had: the q1 units that come back to
\* A are not counted as stock of B.
C21_ProductChangeMovesStock ==
    [][(SavesItems /\ last'.ok) =>
         \A pk \in Kept :
            items'[pk].product # items[pk].product =>
               /\ products'[items[pk].product].current_stock =
                     Stock(items[pk].product) + items[pk].quantity
               /\ products'[items'[pk].product].current_stock =
                     Stock(items'[pk].product) - items'[pk].quantity
               /\ items'[pk].quantity <= Stock(items'[pk].product)]_vars

\* C21 witness: the sale update view accepted a request that changed the
\* product of a stored item.
C21_Witness ==
    /\ last.op = "SaleUpdate" /\ last.ok /\ last.moved

====
